---- MODULE Spec2Model ----
(***************************************************************************)
(* Model of src/modules/hg_branch.rs: the hg_branch prompt module.         *)
(*                                                                         *)
(*   find_hg_directory   ascent from the current directory to a .hg dir    *)
(*   get_hg_current_bookmark / get_hg_commit_name   the branch label       *)
(*   get_graphemes / graphemes_len   grapheme-aware truncation             *)
(*   module              the pipeline that builds the prompt segments      *)
(*                                                                         *)
(* Strings are sequences of one-character strings (code points); "^" is a  *)
(* combining mark (Grapheme_Extend), so that a user-perceived character    *)
(* can be made of several code points.                                     *)
(***************************************************************************)
EXTENDS Integers, Sequences, FiniteSets

VARIABLES
    fs,                   \* the directory chain: fs[l + 1] is the listing of the directory at depth l (0 = "/")
    cwd,                  \* depth of the process working directory (resolves relative paths)
    current_dir,          \* context.current_dir
    current_path,         \* find_hg_directory's cursor
    scans,                \* number of read_dir calls made by find_hg_directory
    hg_path,              \* the value find_hg_directory returned
    bookmarks_current,    \* the file <repo>/bookmarks.current
    namejournal,          \* the file <repo>/namejournal
    reads,                \* the state files read so far, in order
    config,               \* HgBranchConfig
    len,                  \* the truncation length in use
    warnings,             \* number of log::warn! records emitted
    branch_name,          \* the resolved label
    truncated_and_symbol, \* the rendered name
    module,               \* the module under construction
    returned,             \* what module() returned
    pc                    \* position in module()

vars == <<fs, cwd, current_dir, current_path, scans, hg_path, bookmarks_current,
          namejournal, reads, config, len, warnings, branch_name,
          truncated_and_symbol, module, returned, pc>>

locateVars == <<fs, cwd, current_dir, current_path, scans, hg_path>>
fileVars == <<bookmarks_current, namejournal>>
renderVars == <<reads, config, len, warnings, branch_name, truncated_and_symbol,
                module, returned>>

-----------------------------------------------------------------------------
(* Bounds *)

MaxDepth == 2
MaxEntries == 2
MaxFileLen == 4
MaxLabelLen == 3
MaxSymbolLen == 2
MaxTruncLen == 3

\* scans is capped (it saturates) so that the endless ascent stays finite
MaxScans == MaxDepth + 3

-----------------------------------------------------------------------------
(* Paths.  A path is absolute or relative and has n normal components:     *)
(* [abs |-> TRUE, n |-> 0] is "/", [abs |-> FALSE, n |-> 0] is "".         *)

EmptyPath == [abs |-> FALSE, n |-> 0]

RootPath == [abs |-> TRUE, n |-> 0]

\* PathBuf::pop: truncate to parent(); does nothing when parent() is None,
\* which is the case for "/" and for "".
Pop(p) == IF p.n > 0 THEN [p EXCEPT !.n = p.n - 1] ELSE p

\* depth of the directory a path names
Level(p) == IF p.abs THEN p.n ELSE cwd + p.n

NonePath == [tag |-> "None"]

SomePath(p) == [tag |-> "Some", dir |-> p, name |-> ".hg"]

Pending == [tag |-> "Pending"]

-----------------------------------------------------------------------------
(* Directory listings *)

HgDir == [name |-> ".hg", is_dir |-> TRUE, fail |-> "none"]

HgFile == [name |-> ".hg", is_dir |-> FALSE, fail |-> "none"]

OtherDir == [name |-> "other", is_dir |-> TRUE, fail |-> "none"]

EntryErr == [name |-> "other", is_dir |-> FALSE, fail |-> "direntry"]

TypeErr == [name |-> ".hg", is_dir |-> TRUE, fail |-> "file_type"]

EntryKinds == {HgDir, HgFile, OtherDir, EntryErr, TypeErr}

Unreadable == [ok |-> FALSE, entries |-> <<>>]

RECURSIVE EntrySeqs(_)
EntrySeqs(n) ==
    IF n = 0 THEN {<<>>}
    ELSE {Append(s, e) : s \in EntrySeqs(n - 1), e \in EntryKinds}

Listings(budget) ==
    {Unreadable} \cup
    {[ok |-> TRUE, entries |-> s] : s \in UNION {EntrySeqs(k) : k \in 0..budget}}

\* chains of `levels` directories holding at most `budget` entries in all
RECURSIVE Chains(_, _)
Chains(levels, budget) ==
    IF levels = 0 THEN {<<>>}
    ELSE UNION {{<<l>> \o rest : rest \in Chains(levels - 1, budget - Len(l.entries))} :
                l \in Listings(budget)}

\* line 79
IsHgDir(e) == e.is_dir /\ e.name = ".hg"

\* the for loop of lines 68-82 from entry i on
RECURSIVE ScanEntries(_, _)
ScanEntries(entries, i) ==
    IF i > Len(entries) THEN "miss"
    ELSE IF entries[i].fail = "direntry" THEN "direntry_err"
    ELSE IF entries[i].fail = "file_type" THEN "file_type_err"
    ELSE IF IsHgDir(entries[i]) THEN "found"
    ELSE ScanEntries(entries, i + 1)

Listing == fs[Level(current_path) + 1]

Count(n) == IF n < MaxScans THEN n + 1 ELSE n

-----------------------------------------------------------------------------
(* find_hg_directory *)

FindReturn(v) ==
    /\ hg_path' = v
    /\ pc' = "matched"

\* line 62 false, line 85
FindLoopExit ==
    /\ pc = "find"
    /\ current_path = EmptyPath
    /\ FindReturn(NonePath)
    /\ UNCHANGED <<fs, cwd, current_dir, current_path, scans, fileVars, renderVars>>

\* lines 63-66
FindReadDirErrSkip ==
    /\ pc = "find"
    /\ current_path # EmptyPath
    /\ ~Listing.ok
    /\ scans' = Count(scans)
    /\ current_path' = Pop(current_path)
    /\ UNCHANGED <<fs, cwd, current_dir, hg_path, pc, fileVars, renderVars>>
FindReadDirErr ==
    /\ pc = "find"
    /\ current_path # EmptyPath
    /\ ~Listing.ok
    /\ scans' = Count(scans)
    /\ FindReturn(NonePath)
    /\ UNCHANGED <<fs, cwd, current_dir, current_path, fileVars, renderVars>>

\* lines 69-72
FindEntryErr ==
    /\ pc = "find"
    /\ current_path # EmptyPath
    /\ Listing.ok
    /\ ScanEntries(Listing.entries, 1) = "direntry_err"
    /\ scans' = Count(scans)
    /\ FindReturn(NonePath)
    /\ UNCHANGED <<fs, cwd, current_dir, current_path, fileVars, renderVars>>

\* lines 74-77
FindFileTypeErr ==
    /\ pc = "find"
    /\ current_path # EmptyPath
    /\ Listing.ok
    /\ ScanEntries(Listing.entries, 1) = "file_type_err"
    /\ scans' = Count(scans)
    /\ FindReturn(NonePath)
    /\ UNCHANGED <<fs, cwd, current_dir, current_path, fileVars, renderVars>>

\* lines 79-81
FindFound ==
    /\ pc = "find"
    /\ current_path # EmptyPath
    /\ Listing.ok
    /\ ScanEntries(Listing.entries, 1) = "found"
    /\ scans' = Count(scans)
    /\ FindReturn(SomePath(current_path))
    /\ UNCHANGED <<fs, cwd, current_dir, current_path, fileVars, renderVars>>

\* the for loop ends without a match, line 83
FindAscend ==
    /\ pc = "find"
    /\ current_path # EmptyPath
    /\ Listing.ok
    /\ ScanEntries(Listing.entries, 1) = "miss"
    /\ scans' = Count(scans)
    /\ current_path' = Pop(current_path)
    /\ UNCHANGED <<fs, cwd, current_dir, hg_path, pc, fileVars, renderVars>>

Find ==
    \/ FindLoopExit
    \/ FindReadDirErr
    \/ FindEntryErr
    \/ FindFileTypeErr
    \/ FindFound
    \/ FindAscend

-----------------------------------------------------------------------------
(* Strings *)

IsWhitespace(c) == c \in {" ", "\n", "\t"}

RECURSIVE TrimStart(_)
TrimStart(s) ==
    IF s = <<>> \/ ~IsWhitespace(Head(s)) THEN s ELSE TrimStart(Tail(s))

RECURSIVE TrimEnd(_)
TrimEnd(s) ==
    IF s = <<>> \/ ~IsWhitespace(s[Len(s)]) THEN s ELSE TrimEnd(SubSeq(s, 1, Len(s) - 1))

\* str::trim
Trim(s) == TrimEnd(TrimStart(s))

\* index of the first "\n" of s at or after i, 0 when there is none
RECURSIVE FindNewline(_, _)
FindNewline(s, i) ==
    IF i > Len(s) THEN 0
    ELSE IF s[i] = "\n" THEN i
    ELSE FindNewline(s, i + 1)

\* str::split("\n"): always at least one piece
RECURSIVE Split(_)
Split(s) ==
    LET i == FindNewline(s, 1) IN
    IF i = 0 THEN <<s>>
    ELSE <<SubSeq(s, 1, i - 1)>> \o Split(SubSeq(s, i + 1, Len(s)))

RECURSIVE Concat(_)
Concat(pieces) ==
    IF pieces = <<>> THEN <<>> ELSE Head(pieces) \o Concat(Tail(pieces))

Min(a, b) == IF a < b THEN a ELSE b

\* Iterator::take
Take(seq, n) == SubSeq(seq, 1, Min(n, Len(seq)))

\* Grapheme_Extend code points join the cluster before them
IsExtend(c) == c = "^"

\* no cluster continues after a control character
IsControl(c) == c \in {"\n", "\t"}

\* last index of the run of Extend code points of text that starts at i
RECURSIVE ExtendRun(_, _)
ExtendRun(text, i) ==
    IF i <= Len(text) /\ IsExtend(text[i]) THEN ExtendRun(text, i + 1) ELSE i - 1

\* UnicodeSegmentation::graphemes(text, true)
RECURSIVE Graphemes(_)
Graphemes(text) ==
    IF text = <<>> THEN <<>>
    ELSE LET n == IF IsControl(text[1]) THEN 1 ELSE ExtendRun(text, 2) IN
         <<SubSeq(text, 1, n)>> \o Graphemes(SubSeq(text, n + 1, Len(text)))

\* lines 107-112
get_graphemes_short(text, length) == Concat(Take(Graphemes(text), length - 1))
get_graphemes(text, length) == Concat(Take(Graphemes(text), length))

\* lines 114-116
graphemes_len(text) == Len(Graphemes(text))

\* std::usize::MAX, line 34, as the largest 32-bit signed value
USIZE_MAX == 2147483647

-----------------------------------------------------------------------------
(* Files *)

NoFile == [ok |-> FALSE, text |-> <<>>]

File(s) == [ok |-> TRUE, text |-> s]

NoneString == [tag |-> "None", value |-> <<>>]

SomeString(s) == [tag |-> "Some", value |-> s]

\* lines 101-105
get_hg_current_bookmark_raw(file) ==
    IF file.ok THEN SomeString(file.text) ELSE NoneString
get_hg_current_bookmark(file) ==
    IF file.ok THEN SomeString(Trim(file.text)) ELSE NoneString

\* lines 88-99
get_hg_commit_name(file) ==
    LET journal == IF file.ok THEN Trim(file.text) ELSE <<>>
        lines == Split(journal)
    IN  IF Len(lines) > 0 THEN lines[Len(lines)] ELSE <<>>

-----------------------------------------------------------------------------
(* module *)

\* lines 14-17, no repository
ModuleNoRepo ==
    /\ pc = "matched"
    /\ hg_path = NonePath
    /\ returned' = "None"
    /\ pc' = "done"
    /\ UNCHANGED <<locateVars, fileVars, reads, config, len, warnings, branch_name,
                   truncated_and_symbol, module>>

\* lines 14-25
ModuleNew ==
    /\ pc = "matched"
    /\ hg_path # NonePath
    /\ module' = [prefix |-> "on ",
                  segments |-> <<[name |-> "symbol", value |-> config.symbol]>>]
    /\ pc' = "len"
    /\ UNCHANGED <<locateVars, fileVars, reads, config, len, warnings, branch_name,
                   truncated_and_symbol, returned>>

\* lines 29-37
TruncationLenZeroOk ==
    /\ pc = "len"
    /\ IF config.truncation_length < 0
       THEN /\ warnings' = warnings + 1
            /\ len' = USIZE_MAX
       ELSE /\ warnings' = warnings
            /\ len' = config.truncation_length
    /\ pc' = "bookmark"
    /\ UNCHANGED <<locateVars, fileVars, reads, config, branch_name,
                   truncated_and_symbol, module, returned>>
TruncationLen ==
    /\ pc = "len"
    /\ IF config.truncation_length <= 0
       THEN /\ warnings' = warnings + 1
            /\ len' = USIZE_MAX
       ELSE /\ warnings' = warnings
            /\ len' = config.truncation_length
    /\ pc' = "bookmark"
    /\ UNCHANGED <<locateVars, fileVars, reads, config, branch_name,
                   truncated_and_symbol, module, returned>>

\* lines 39-40, get_hg_current_bookmark
BookmarkRead ==
    /\ pc = "bookmark"
    /\ reads' = Append(reads, "bookmarks.current")
    /\ LET bookmark == get_hg_current_bookmark(bookmarks_current) IN
       IF bookmark.tag = "Some"
       THEN /\ branch_name' = bookmark.value
            /\ pc' = "truncate"
       ELSE /\ branch_name' = branch_name
            /\ pc' = "journal"
    /\ UNCHANGED <<locateVars, fileVars, config, len, warnings,
                   truncated_and_symbol, module, returned>>

\* line 40, unwrap_or_else(|| get_hg_commit_name(hg_path))
JournalRead ==
    /\ pc = "journal"
    /\ reads' = Append(reads, "namejournal")
    /\ branch_name' = get_hg_commit_name(namejournal)
    /\ pc' = "truncate"
    /\ UNCHANGED <<locateVars, fileVars, config, len, warnings,
                   truncated_and_symbol, module, returned>>

\* lines 42-49
RenderAlways(label, length, symbol) ==
    IF length <= graphemes_len(label)
    THEN get_graphemes(label, length) \o get_graphemes(symbol, 1)
    ELSE get_graphemes(label, length)
RenderWholeSymbol(label, length, symbol) ==
    IF length < graphemes_len(label)
    THEN get_graphemes(label, length) \o symbol
    ELSE get_graphemes(label, length)
Render(label, length, symbol) ==
    LET truncated_graphemes == get_graphemes(label, length) IN
    IF length < graphemes_len(label)
    THEN truncated_graphemes \o get_graphemes(symbol, 1)
    ELSE truncated_graphemes

\* lines 42-49
Truncate ==
    /\ pc = "truncate"
    /\ truncated_and_symbol' = Render(branch_name, len, config.truncation_symbol)
    /\ pc' = "segment"
    /\ UNCHANGED <<locateVars, fileVars, reads, config, len, warnings, branch_name,
                   module, returned>>

\* lines 51-56
NameSegmentFirst ==
    /\ pc = "segment"
    /\ module' = [module EXCEPT !.segments =
                    <<[name |-> "name", value |-> truncated_and_symbol]>> \o @]
    /\ returned' = "Some"
    /\ pc' = "done"
    /\ UNCHANGED <<locateVars, fileVars, reads, config, len, warnings, branch_name,
                   truncated_and_symbol>>
NameSegment ==
    /\ pc = "segment"
    /\ module' = [module EXCEPT !.segments =
                    Append(@, [name |-> "name", value |-> truncated_and_symbol])]
    /\ returned' = "Some"
    /\ pc' = "done"
    /\ UNCHANGED <<locateVars, fileVars, reads, config, len, warnings, branch_name,
                   truncated_and_symbol>>

-----------------------------------------------------------------------------
(* Inputs *)


DefaultConfig ==
    [symbol |-> <<"h", "g">>, truncation_length |-> MaxTruncLen, truncation_symbol |-> <<"~">>]

\* the starting directories: absolute, or relative to an ancestor
StartsIn(chain) ==
    LET d == Len(chain) - 1 IN
    {<<[abs |-> TRUE, n |-> d], 0>>} \cup
    {<<[abs |-> FALSE, n |-> k], d - k>> : k \in 1..d}

InitFind ==
    /\ \E d \in 0..MaxDepth : fs \in Chains(d + 1, MaxEntries)
    /\ \E s \in StartsIn(fs) :
        /\ current_dir = s[1]
        /\ cwd = s[2]
    /\ current_path = current_dir
    /\ scans = 0
    /\ hg_path = Pending
    /\ pc = "find"

InitRender ==
    /\ reads = <<>>
    /\ len = 0
    /\ warnings = 0
    /\ branch_name = <<>>
    /\ truncated_and_symbol = <<>>
    /\ module = [prefix |-> "", segments |-> <<>>]
    /\ returned = "pending"

InitLocate ==
    /\ InitFind
    /\ InitRender
    /\ bookmarks_current = NoFile
    /\ namejournal = NoFile
    /\ config = DefaultConfig

NextLocate == Find

SpecLocate == InitLocate /\ [][NextLocate]_vars

\* strings of at most n code points of alphabet
RECURSIVE Strings(_, _)
Strings(alphabet, n) ==
    IF n = 0 THEN {<<>>}
    ELSE LET shorter == Strings(alphabet, n - 1) IN
         shorter \cup {Append(s, c) : s \in shorter, c \in alphabet}

\* the current directory is a repository root
InitRepo ==
    /\ fs = <<[ok |-> TRUE, entries |-> <<HgDir>>]>>
    /\ current_dir = RootPath
    /\ cwd = 0
    /\ current_path = current_dir
    /\ scans = 0
    /\ hg_path = Pending
    /\ pc = "find"

FileTexts == Strings({"a", " ", "\n"}, MaxFileLen)

InitResolve ==
    /\ InitRepo
    /\ InitRender
    /\ bookmarks_current \in {NoFile} \cup {File(s) : s \in FileTexts}
    /\ namejournal \in {NoFile} \cup {File(s) : s \in FileTexts}
    /\ config = DefaultConfig

NextRepo ==
    \/ FindFound
    \/ ModuleNew
    \/ TruncationLen
    \/ BookmarkRead
    \/ JournalRead
    \/ Truncate
    \/ NameSegment

SpecResolve == InitResolve /\ [][NextRepo]_vars

Labels == Strings({"a", "b", "^"}, MaxLabelLen)

Symbols == Strings({"~", "^"}, MaxSymbolLen)

InitTruncate ==
    /\ InitRepo
    /\ InitRender
    /\ \E label \in Labels :
        \/ bookmarks_current = File(label) /\ namejournal = NoFile
        \/ bookmarks_current = NoFile /\ namejournal = File(label)
    /\ \E n \in (-1)..MaxTruncLen, symbol \in Symbols :
        config = [symbol |-> <<"h", "g">>, truncation_length |-> n,
                  truncation_symbol |-> symbol]

SpecTruncate == InitTruncate /\ [][NextRepo]_vars

Init ==
    /\ InitFind
    /\ InitRender
    /\ bookmarks_current \in {NoFile, File(<<"a", "^", "b", "\n">>)}
    /\ namejournal \in {NoFile, File(<<"a", "\n", " ", "b">>)}
    /\ \E n \in {0, 1} :
        config = [symbol |-> <<"h", "g">>, truncation_length |-> n,
                  truncation_symbol |-> <<"~">>]

Next ==
    \/ Find
    \/ ModuleNoRepo
    \/ ModuleNew
    \/ TruncationLen
    \/ BookmarkRead
    \/ JournalRead
    \/ Truncate
    \/ NameSegment

Spec == Init /\ [][Next]_vars

-----------------------------------------------------------------------------
(* Properties of find_hg_directory *)

StartLevel == Level(current_dir)

\* the directories from the starting directory up to the filesystem root
PathLevels == 0..StartLevel

Paths == [abs : BOOLEAN, n : 0..StartLevel]

AllReadsSucceed ==
    \A l \in PathLevels :
        /\ fs[l + 1].ok
        /\ \A i \in DOMAIN fs[l + 1].entries : fs[l + 1].entries[i].fail = "none"

IsHgDirectoryEntry(e) == e.fail = "none" /\ e.is_dir /\ e.name = ".hg"

HasHgDirectory(l) ==
    \E i \in DOMAIN fs[l + 1].entries : IsHgDirectoryEntry(fs[l + 1].entries[i])

NearestHg(l) ==
    /\ HasHgDirectory(l)
    /\ \A m \in (l + 1)..StartLevel : ~HasHgDirectory(m)

\* the read of the directory fails, or an entry fails before any .hg directory entry
FailsFirst(l) ==
    \/ ~fs[l + 1].ok
    \/ \E i \in DOMAIN fs[l + 1].entries :
        /\ fs[l + 1].entries[i].fail # "none"
        /\ \A j \in 1..(i - 1) : ~IsHgDirectoryEntry(fs[l + 1].entries[j])

\* the ascent has read the directory at depth l
Scanned(l) == l \in PathLevels /\ l > StartLevel - scans

FindReturned == hg_path # Pending

\* C1: when every read succeeds and no directory from the start up to the root
\* holds a .hg directory, the ascent scans each directory on the path at most once
\* (so it ends) and the value returned is None.
C1_NoRepositoryTerminates ==
    (AllReadsSucceed /\ \A l \in PathLevels : ~HasHgDirectory(l)) =>
        /\ scans <= StartLevel + 1
        /\ FindReturned => hg_path = NonePath

\* C1 restricted to relative starting directories, whose cursor does reach ""
C1_RelativeStart == ~current_dir.abs => C1_NoRepositoryTerminates

\* C2: when every read succeeds and the directory at depth l is the nearest one
\* holding a .hg directory, find_hg_directory returns that .hg entry after exactly
\* (distance from the start + 1) scans.
C2_NearestAncestorFound ==
    \A l \in PathLevels :
        (AllReadsSucceed /\ NearestHg(l) /\ FindReturned) =>
            /\ \E p \in Paths : hg_path = SomePath(p) /\ Level(p) = l
            /\ scans = StartLevel - l + 1

\* C2 restricted to absolute starting directories
C2_AbsoluteStart == current_dir.abs => C2_NearestAncestorFound

C2_AbsoluteStartWitness ==
    /\ current_dir.abs
    /\ AllReadsSucceed
    /\ NearestHg(0)
    /\ HasHgDirectory(0)
    /\ StartLevel = MaxDepth
    /\ \E i \in DOMAIN fs[StartLevel + 1].entries : fs[StartLevel + 1].entries[i] = HgFile
    /\ hg_path = SomePath(RootPath)

\* C3: once the ascent has read a directory whose enumeration fails, or one of
\* whose entries fails before a .hg directory entry, None has been returned and
\* that directory is the last one read.
C3_AbortOnReadError ==
    \A l \in PathLevels :
        (Scanned(l) /\ FailsFirst(l)) =>
            /\ hg_path = NonePath
            /\ scans = StartLevel - l + 1

C3_Witness ==
    \E l \in PathLevels :
        /\ l < StartLevel
        /\ Scanned(l)
        /\ FailsFirst(l)
        /\ \E h \in 0..(l - 1) : HasHgDirectory(h)
        /\ hg_path = NonePath

-----------------------------------------------------------------------------
(* Properties of the branch resolver *)

AllWhitespace(s) == \A i \in DOMAIN s : IsWhitespace(s[i])

\* t is s without its leading and trailing whitespace
IsTrimOf(t, s) ==
    \/ t = <<>> /\ AllWhitespace(s)
    \/ /\ t # <<>>
       /\ ~IsWhitespace(t[1])
       /\ ~IsWhitespace(t[Len(t)])
       /\ \E i \in 0..(Len(s) - Len(t)) :
            /\ SubSeq(s, i + 1, i + Len(t)) = t
            /\ \A j \in 1..i : IsWhitespace(s[j])
            /\ \A j \in (i + Len(t) + 1)..Len(s) : IsWhitespace(s[j])

Resolved == pc \in {"truncate", "segment", "done"}

\* C4: when bookmarks.current is readable the label is its trimmed contents and
\* namejournal is never read.
C4_BookmarkWins ==
    (bookmarks_current.ok /\ Resolved) =>
        /\ IsTrimOf(branch_name, bookmarks_current.text)
        /\ reads = <<"bookmarks.current">>

C4_Witness ==
    /\ pc = "done"
    /\ bookmarks_current.ok
    /\ bookmarks_current.text # <<>>
    /\ AllWhitespace(bookmarks_current.text)
    /\ namejournal.ok
    /\ ~AllWhitespace(namejournal.text)
    /\ branch_name = <<>>

\* the last line of lines[1..n] that is not blank, trimmed; empty when all are blank
RECURSIVE LastNonBlank(_, _)
LastNonBlank(lines, n) ==
    IF n = 0 THEN <<>>
    ELSE IF ~AllWhitespace(lines[n]) THEN Trim(lines[n])
    ELSE LastNonBlank(lines, n - 1)

\* C5: when bookmarks.current is unreadable the label is the trimmed last
\* non-blank line of namejournal (empty when namejournal is unreadable or blank),
\* so it neither starts nor ends with whitespace.
C5_JournalLastLineTrimmed ==
    (~bookmarks_current.ok /\ Resolved) =>
        /\ branch_name =
             IF namejournal.ok
             THEN LastNonBlank(Split(namejournal.text), Len(Split(namejournal.text)))
             ELSE <<>>
        /\ branch_name # <<>> =>
             ~IsWhitespace(branch_name[1]) /\ ~IsWhitespace(branch_name[Len(branch_name)])

-----------------------------------------------------------------------------
(* Properties of the truncation *)

\* the indices of text at which a user-perceived character starts
ClusterStarts(text) ==
    {i \in DOMAIN text : i = 1 \/ ~IsExtend(text[i]) \/ IsControl(text[i - 1])}

GraphemeCount(text) == Cardinality(ClusterStarts(text))

\* the first m user-perceived characters of text
FirstGraphemes(text, m) ==
    IF GraphemeCount(text) <= m THEN text
    ELSE LET next == CHOOSE i \in ClusterStarts(text) :
                        Cardinality({j \in ClusterStarts(text) : j < i}) = m
         IN  SubSeq(text, 1, next - 1)

Rendered == pc \in {"segment", "done"}

\* C6: for a positive truncation_length M, a label of at most M graphemes is
\* rendered unchanged, and a longer one as its first M graphemes followed by the
\* first grapheme of truncation_symbol.
C6_TruncateAtGraphemes ==
    (Rendered /\ config.truncation_length > 0) =>
        truncated_and_symbol =
            IF GraphemeCount(branch_name) <= config.truncation_length
            THEN branch_name
            ELSE FirstGraphemes(branch_name, config.truncation_length)
                    \o FirstGraphemes(config.truncation_symbol, 1)

C6_Witness ==
    /\ pc = "done"
    /\ config.truncation_length = 1
    /\ config.truncation_symbol = <<"~", "^">>
    /\ branch_name = <<"a", "^", "b">>
    /\ truncated_and_symbol = <<"a", "^", "~", "^">>

\* C7: for a positive truncation_length M the rendered name has at most M + 1
\* graphemes, and M + 1 only if the label had more than M and truncation_symbol
\* is not empty.
C7_RenderedLength ==
    (Rendered /\ config.truncation_length > 0) =>
        /\ GraphemeCount(truncated_and_symbol) <= config.truncation_length + 1
        /\ GraphemeCount(truncated_and_symbol) = config.truncation_length + 1 =>
             /\ GraphemeCount(branch_name) > config.truncation_length
             /\ config.truncation_symbol # <<>>

C7_Witness ==
    /\ pc = "done"
    /\ config.truncation_length > 1
    /\ GraphemeCount(truncated_and_symbol) = config.truncation_length + 1
    /\ Len(truncated_and_symbol) > config.truncation_length + 1

\* C8: a truncation_length of zero or less renders the label unchanged, emits
\* exactly one warning and still returns the module; a positive one emits none.
C8_NonPositiveIsUnbounded ==
    /\ pc \notin {"find", "matched", "len"} =>
         warnings = IF config.truncation_length <= 0 THEN 1 ELSE 0
    /\ pc \in {"find", "matched", "len"} => warnings = 0
    /\ (Rendered /\ config.truncation_length <= 0) => truncated_and_symbol = branch_name
    /\ pc = "done" => returned = "Some"

C8_Witness ==
    /\ pc = "done"
    /\ config.truncation_length = 0
    /\ config.truncation_symbol # <<>>
    /\ GraphemeCount(branch_name) > 1
    /\ truncated_and_symbol = branch_name
    /\ warnings = 1
    /\ returned = "Some"

\* C9: truncating the rendered name again under the same policy changes nothing
\* when the length is unbounded or the rendered name has at most
\* truncation_length graphemes.
C9_Idempotent ==
    (/\ Rendered
     /\ \/ config.truncation_length <= 0
        \/ GraphemeCount(truncated_and_symbol) <= config.truncation_length) =>
        Render(truncated_and_symbol, len, config.truncation_symbol) = truncated_and_symbol

C9_Witness ==
    /\ pc = "done"
    /\ config.truncation_length > 0
    /\ GraphemeCount(branch_name) > config.truncation_length
    /\ truncated_and_symbol # branch_name
    /\ GraphemeCount(truncated_and_symbol) = config.truncation_length

-----------------------------------------------------------------------------
(* Properties of module *)

\* C10: module returns None exactly when find_hg_directory returned None; once a
\* .hg directory is found every step up to the return can be taken, and the module
\* returned holds the prefix "on ", then the symbol segment, then the name
\* segment, whose value is empty when both state files are unreadable.
C10_OutputIffRepository ==
    /\ (pc = "done") = (returned # "pending")
    /\ pc = "done" => ((returned = "None") = (hg_path = NonePath))
    /\ (hg_path.tag = "Some" /\ pc # "done") => ENABLED <<Next>>_vars
    /\ returned = "Some" =>
         /\ module.prefix = "on "
         /\ Len(module.segments) = 2
         /\ module.segments[1] = [name |-> "symbol", value |-> config.symbol]
         /\ module.segments[2] = [name |-> "name", value |-> truncated_and_symbol]
         /\ (~bookmarks_current.ok /\ ~namejournal.ok) => module.segments[2].value = <<>>

C10_Witness ==
    /\ pc = "done"
    /\ returned = "Some"
    /\ scans > 1
    /\ ~bookmarks_current.ok
    /\ ~namejournal.ok
    /\ module.segments[2].value = <<>>

====
